---- MODULE Spec2Model ----
(***************************************************************************)
(* Model of the Diolan DLN-2 USB-ADC driver (src/dln2-adc.c).              *)
(*                                                                         *)
(* The state is one struct dln2_adc (port, chans_enabled), the mutex of    *)
(* its iio device (indio_dev->mlock) and, for every concurrent caller of   *)
(* dln2_adc_read_raw, the caller's position in the code and its locals.    *)
(* Every dln2_transfer / dln2_transfer_tx call is one step; the device's   *)
(* answer to it (an errno, or a response of some length) is chosen         *)
(* nondeterministically.                                                   *)
(*                                                                         *)
(* History variables (not program state): trace, seq_ok, succeeded,        *)
(* ok_before, en_before, all_good, en_issued, prev_failed.                 *)
(***************************************************************************)
EXTENDS Integers, Sequences, FiniteSets

\* ------------------------------------------------------------ bounds
\* Number of concurrent callers of dln2_adc_read_raw.
NReaders == 2
\* Largest channel count the modelled device reports (the wire field is a u8).
MaxCount == 2

\* ------------------------------------------------- program constants
DLN2_ADC_MAX_CHANNELS == 8
DLN2_ADC_DATA_BITS == 10
EPROTO == 71
EINVAL == 22
ENOMEM == 12
IIO_VAL_INT == 1
IIO_CHAN_INFO_RAW == 0

Readers == 1..NReaders
NoReader == 0
\* *val before dln2_adc_read_raw has written it.
Unwritten == -1

\* Ports the platform data may name (pdata->port).
Ports == {2}
\* chan->channel as handed to read_raw: the registered slots' ends, and two
\* indices outside DLN2_ADC_CHAN(0..7).
ChannelArgs == {-1, 0, 7, 8}
\* The operation kinds read_raw may be called with: RAW, and one that is not.
Masks == {IIO_CHAN_INFO_RAW, IIO_CHAN_INFO_RAW + 1}

\* Negative errnos dln2_transfer can return (-ETIMEDOUT).
TransportErrors == {-110}

\* Responses the device may give, as byte sequences.
\* The count is one byte; one count above DLN2_ADC_MAX_CHANNELS is included.
CountResponses ==
    {<<>>} \cup {<<n>> : n \in 0..MaxCount} \cup {<<DLN2_ADC_MAX_CHANNELS + 1>>}
ConflictResponses == {<<>>, <<0>>, <<0, 0>>}
ValueResponses == {<<255>>, <<255, 3>>, <<0, 4, 9>>}
NoResponse == {<<>>}

VARIABLES
    life,           \* "unbound", "bound", "removed": platform device binding
    probe_ret,      \* what the last dln2_adc_probe returned
    port,           \* dln2->port
    chans_enabled,  \* dln2->chans_enabled (u8)
    mlock,          \* indio_dev->mlock: NoReader or the holder
    pc,             \* per caller: position in dln2_adc_read_raw
    mask,           \* per caller: argument mask
    channel,        \* per caller: chan->channel
    chan_count,     \* per caller: local chan_count of set_port_enabled
    i,              \* per caller: loop index of set_port_enabled
    ret,            \* per caller: value dln2_adc_read returns
    rr,             \* per caller: value dln2_adc_read_raw returns
    val,            \* per caller: *val
    trace,          \* requests issued under the current holding of the mutex
    seq_ok,         \* trace was a complete enable sequence when chans_enabled was set
    succeeded,      \* some dln2_adc_read has returned >= 0
    ok_before,      \* succeeded, as it stood when the mutex was last acquired
    en_before,      \* chans_enabled, as it stood when the mutex was last acquired
    all_good,       \* every request issued so far was answered well
    en_issued,      \* while all_good: the enable-sequence requests issued so far
    prev_failed     \* the last finished read ran the enable sequence and it failed

vars == <<life, probe_ret, port, chans_enabled, mlock, pc, mask, channel,
          chan_count, i, ret, rr, val, trace, seq_ok, succeeded, ok_before, en_before,
          all_good, en_issued, prev_failed>>

hist == <<ok_before, en_before>>
cum == <<all_good, en_issued>>
ctx == <<life, probe_ret, port>>
locals == <<mask, channel, chan_count, i, ret, rr, val>>

Min(a, b) == IF a < b THEN a ELSE b

\* ------------------------------------------------------ the transport
\* dln2_transfer(pdev, cmd, ibuf, ilen, obuf, &olen): a negative errno, or 0
\* with a response of which at most olen bytes are copied and *olen is set
\* to the number copied.
TransferOutcomes(resps) ==
    {[ret |-> e, rsp |-> <<>>] : e \in TransportErrors}
        \cup {[ret |-> 0, rsp |-> b] : b \in resps}

OlenAfter(o, olen) == Min(Len(o.rsp), olen)

\* u8 conversion of an int / unsigned.
U8(x) == x % 256

\* Mutant: the two bytes are read in big-endian order.
le16_to_cpu_BigEndian(b) == 256 * b[1] + b[2]

\* le16_to_cpu of the two bytes copied into a __le16.
le16_to_cpu(b) == b[1] + 256 * b[2]

\* One issued request, with what came back (history).
Req(r, cmd, payload, o) ==
    [by |-> r, cmd |-> cmd, payload |-> payload, ret |-> o.ret, rsp |-> o.rsp]

\* --------------------------------------------------- codec results
\* Mutant: a transport error of GetChannelCount is taken for a count of 0.
GetChanCountRet_ErrAsZero(o) ==
    IF o.ret < 0 THEN 0
    ELSE IF OlenAfter(o, 1) < 1 THEN -EPROTO
    ELSE o.rsp[1]

\* dln2_adc_get_chan_count
GetChanCountRet(o) ==
    IF o.ret < 0 THEN o.ret
    ELSE IF OlenAfter(o, 1) < 1 THEN -EPROTO
    ELSE o.rsp[1]

\* Mutant: the result of dln2_transfer_tx is not looked at.
TxRet_Ignored(o) == 0

\* dln2_adc_set_port_resolution / dln2_adc_set_chan_enabled
TxRet(o) == IF o.ret < 0 THEN o.ret ELSE 0

\* enable ? DLN2_ADC_CHANNEL_ENABLE : DLN2_ADC_CHANNEL_DISABLE
ChanCmd(enable) == IF enable THEN "CHANNEL_ENABLE" ELSE "CHANNEL_DISABLE"

\* Mutant: the two commands are swapped.
PortCmd_Swapped(enable) == IF enable THEN "DISABLE" ELSE "ENABLE"

\* enable ? DLN2_ADC_ENABLE : DLN2_ADC_DISABLE
PortCmd(enable) == IF enable THEN "ENABLE" ELSE "DISABLE"

\* Mutant: the length of the port enable's response is not checked.
PortEnableRet_NoLengthCheck(o) == IF o.ret < 0 THEN o.ret ELSE 0

\* Mutant: the port enable's result is not looked at.
PortEnableRet_Ignored(o) == 0

\* the DLN2_ADC_ENABLE transfer of dln2_adc_set_port_enabled
PortEnableRet(o) ==
    IF o.ret < 0 THEN o.ret
    ELSE IF OlenAfter(o, 2) < 2 THEN -EPROTO
    ELSE 0

\* Mutant: the value is cut to DLN2_ADC_DATA_BITS bits.
GetValRet_Masked(o) ==
    IF o.ret < 0 THEN o.ret
    ELSE IF OlenAfter(o, 2) < 2 THEN -EPROTO
    ELSE le16_to_cpu(o.rsp) % 1024

\* Mutant: no length check; bytes that did not arrive read as 0.
GetValRet_NoLengthCheck(o) ==
    IF o.ret < 0 THEN o.ret
    ELSE IF Len(o.rsp) >= 2 THEN le16_to_cpu(o.rsp)
    ELSE IF Len(o.rsp) = 1 THEN o.rsp[1]
    ELSE 0

\* the DLN2_ADC_CHANNEL_GET_VAL transfer of dln2_adc_read
GetValRet(o) ==
    IF o.ret < 0 THEN o.ret
    ELSE IF OlenAfter(o, 2) < 2 THEN -EPROTO
    ELSE le16_to_cpu(o.rsp)

\* ---------------------------------------------------------- history
\* The requests of one enable sequence on port p for n channels, in order.
EnableCmds(n) ==
    [k \in 1..(n + 3) |->
        IF k = 1 THEN "GET_CHANNEL_COUNT"
        ELSE IF k = 2 THEN "SET_RESOLUTION"
        ELSE IF k = n + 3 THEN "ENABLE"
        ELSE "CHANNEL_ENABLE"]

EnablePayloads(p, n) ==
    [k \in 1..(n + 3) |->
        IF k = 1 THEN <<p>>
        ELSE IF k = 2 THEN <<p, DLN2_ADC_DATA_BITS>>
        ELSE IF k = n + 3 THEN <<p>>
        ELSE <<p, k - 3>>]

\* t is one whole enable sequence, every request of it answered well: the
\* count n read from the first response, then the resolution, channels
\* 0..n-1 in increasing order, and the port enable with its two bytes.
CompleteEnable(t) ==
    /\ Len(t) >= 3
    /\ t[1].ret = 0
    /\ Len(t[1].rsp) >= 1
    /\ LET n == t[1].rsp[1] IN
         /\ Len(t) = n + 3
         /\ \A k \in 1..Len(t) :
              /\ t[k].cmd = EnableCmds(n)[k]
              /\ t[k].payload = EnablePayloads(port, n)[k]
              /\ t[k].ret = 0
              /\ t[k].by = t[1].by
         /\ Len(t[n + 3].rsp) >= 2

\* Declared minimum response length of a command.
MinLen(cmd) ==
    IF cmd = "GET_CHANNEL_COUNT" THEN 1
    ELSE IF cmd \in {"ENABLE", "DISABLE", "CHANNEL_GET_VAL"} THEN 2
    ELSE 0

\* The transport delivered, and the response has its declared length.
Good(e) == e.ret = 0 /\ Len(e.rsp) >= MinLen(e.cmd)

\* t is exactly the requests of one enable sequence, for Len(t) - 3 channels.
OneWholeSequence(t) ==
    /\ Len(t) >= 3
    /\ \A k \in 1..Len(t) :
         /\ t[k].cmd = EnableCmds(Len(t) - 3)[k]
         /\ t[k].payload = EnablePayloads(port, Len(t) - 3)[k]

\* What en_issued holds once the requests in it are one whole sequence.
Whole == <<[cmd |-> "WHOLE_SEQUENCE", payload |-> <<>>]>>

\* Request e is issued: it joins the holder's trace. While every request
\* was answered well, the enable-sequence requests issued since the probe
\* are kept in en_issued, written Whole when they are one whole sequence.
Log(e) ==
    /\ trace' = Append(trace, e)
    /\ all_good' = (all_good /\ Good(e))
    /\ en_issued' =
         IF ~(all_good /\ Good(e)) THEN <<>>
         ELSE IF e.cmd = "CHANNEL_GET_VAL" THEN en_issued
         ELSE LET t == Append(en_issued, [cmd |-> e.cmd, payload |-> e.payload])
              IN  IF OneWholeSequence(t) THEN Whole ELSE t

\* ------------------------------------------------------------- Init
Init ==
    /\ life = "unbound"
    /\ probe_ret = 0
    /\ port = 0
    /\ chans_enabled = 0
    /\ mlock = NoReader
    /\ pc = [r \in Readers |-> "idle"]
    /\ mask = [r \in Readers |-> IIO_CHAN_INFO_RAW]
    /\ channel = [r \in Readers |-> 0]
    /\ chan_count = [r \in Readers |-> 0]
    /\ i = [r \in Readers |-> 0]
    /\ ret = [r \in Readers |-> 0]
    /\ rr = [r \in Readers |-> 0]
    /\ val = [r \in Readers |-> Unwritten]
    /\ trace = <<>>
    /\ seq_ok = FALSE
    /\ succeeded = FALSE
    /\ ok_before = FALSE
    /\ en_before = 0
    /\ all_good = TRUE
    /\ en_issued = <<>>
    /\ prev_failed = FALSE

\* -------------------------------------------------------- lifecycle
\* dln2_adc_probe: allocation or registration may fail; on success the
\* zero-allocated context is bound with the platform data's port.
dln2_adc_probe ==
    /\ life = "unbound"
    /\ \E p \in Ports, res \in {0, -ENOMEM, -EINVAL} :
         /\ probe_ret' = res
         /\ IF res = 0
            THEN /\ life' = "bound"
                 /\ port' = p
                 /\ chans_enabled' = 0
            ELSE UNCHANGED <<life, port, chans_enabled>>
    /\ UNCHANGED <<mlock, pc, locals, trace, seq_ok, succeeded, hist,
                   cum, prev_failed>>

\* dln2_adc_remove: iio_device_unregister only; it waits for the callers
\* inside read_raw to leave. No transfer, no change to the context.
dln2_adc_remove ==
    /\ life = "bound"
    /\ \A r \in Readers : pc[r] \in {"idle", "returned"}
    /\ life' = "removed"
    /\ UNCHANGED <<probe_ret, port, chans_enabled, mlock, pc, locals,
                   trace, seq_ok, succeeded, hist,
                   cum, prev_failed>>

\* ------------------------------------------------ dln2_adc_read_raw
\* Value read_raw returns once dln2_adc_read has returned ret.
ReadRawResult(x) == IF x < 0 THEN -EINVAL ELSE IIO_VAL_INT

\* Mutant: every operation kind is handled as a raw read.
HandlesMask_Any(m) == TRUE

\* case IIO_CHAN_INFO_RAW:
HandlesMask(m) == m = IIO_CHAN_INFO_RAW

\* Entry: switch (mask). Any mask but IIO_CHAN_INFO_RAW falls out of the
\* switch and returns -EINVAL at once.
ReadRawCall(r) ==
    /\ life = "bound"
    /\ pc[r] \in {"idle", "returned"}
    /\ \E m \in Masks, c \in ChannelArgs :
         /\ mask' = [mask EXCEPT ![r] = m]
         /\ channel' = [channel EXCEPT ![r] = c]
         /\ IF HandlesMask(m)
            THEN /\ pc' = [pc EXCEPT ![r] = "lock"]
                 /\ rr' = [rr EXCEPT ![r] = 0]
            ELSE /\ pc' = [pc EXCEPT ![r] = "returned"]
                 /\ rr' = [rr EXCEPT ![r] = -EINVAL]
    /\ chan_count' = [chan_count EXCEPT ![r] = 0]
    /\ i' = [i EXCEPT ![r] = 0]
    /\ ret' = [ret EXCEPT ![r] = 0]
    /\ val' = [val EXCEPT ![r] = Unwritten]
    /\ UNCHANGED <<ctx, chans_enabled, mlock, trace, seq_ok, succeeded, hist,
                   cum, prev_failed>>

\* Mutant: the mutex is taken without waiting for its holder.
MutexFree_NoWait == TRUE

\* Whether the mutex can be taken.
MutexFree == mlock = NoReader

\* mutex_lock(&indio_dev->mlock)
MutexLock(r) ==
    /\ pc[r] = "lock"
    /\ MutexFree
    /\ mlock' = r
    /\ pc' = [pc EXCEPT ![r] = "test"]
    /\ ok_before' = succeeded
    /\ en_before' = chans_enabled
    /\ UNCHANGED <<ctx, chans_enabled, locals, trace, seq_ok, succeeded,
                   cum, prev_failed>>

\* Mutant: the enable sequence runs on every read.
NeedsEnable_Always == TRUE

\* Whether dln2_adc_read must run the enable sequence first.
NeedsEnable == chans_enabled = 0

\* Mutant: the enable sequence starts after the channel count query.
TestEnabled_SkipsCount(r) ==
    /\ pc[r] = "test"
    /\ pc' = [pc EXCEPT ![r] = IF NeedsEnable THEN "set_res" ELSE "get_val"]
    /\ UNCHANGED <<ctx, chans_enabled, mlock, locals, trace, seq_ok, succeeded, hist,
                   cum, prev_failed>>

\* dln2_adc_read: if (dln2->chans_enabled == 0)
TestEnabled(r) ==
    /\ pc[r] = "test"
    /\ pc' = [pc EXCEPT ![r] = IF NeedsEnable THEN "get_count" ELSE "get_val"]
    /\ UNCHANGED <<ctx, chans_enabled, mlock, locals, trace, seq_ok, succeeded, hist,
                   cum, prev_failed>>

\* dln2_adc_read returns x: its locals and those of set_port_enabled are
\* gone, and the caller goes on to mutex_unlock.
ReadReturns(r, x) ==
    /\ ret' = [ret EXCEPT ![r] = x]
    /\ chan_count' = [chan_count EXCEPT ![r] = 0]
    /\ i' = [i EXCEPT ![r] = 0]
    /\ pc' = [pc EXCEPT ![r] = "unlock"]
    /\ succeeded' = (succeeded \/ x >= 0)
    /\ prev_failed' = (x < 0 /\ chans_enabled = 0)

\* Mutant: the loop runs while i <= chan_count.
LoopNext_OffByOne(k, n) == IF k <= n THEN "chan_en" ELSE "port_en"

\* Position after the resolution is set, or after channel k - 1 is enabled:
\* the loop test i < chan_count.
LoopNext(k, n) == IF k < n THEN "chan_en" ELSE "port_en"

\* dln2_adc_get_chan_count, called first by dln2_adc_set_port_enabled.
GetChanCount(r) ==
    /\ pc[r] = "get_count"
    /\ \E o \in TransferOutcomes(CountResponses) :
         /\ Log(Req(r, "GET_CHANNEL_COUNT", <<U8(port)>>, o))
         /\ IF GetChanCountRet(o) < 0
            THEN ReadReturns(r, GetChanCountRet(o))
            ELSE /\ chan_count' = [chan_count EXCEPT ![r] = GetChanCountRet(o)]
                 /\ pc' = [pc EXCEPT ![r] = "set_res"]
                 /\ UNCHANGED <<i, ret, succeeded, prev_failed>>
    /\ UNCHANGED <<ctx, chans_enabled, mlock, mask, channel, rr, val,
                   seq_ok, hist>>

\* dln2_adc_set_port_resolution
SetPortResolution(r) ==
    /\ pc[r] = "set_res"
    /\ \E o \in TransferOutcomes(NoResponse) :
         /\ Log(Req(r, "SET_RESOLUTION", <<U8(port), U8(DLN2_ADC_DATA_BITS)>>, o))
         /\ IF TxRet(o) < 0
            THEN ReadReturns(r, TxRet(o))
            ELSE /\ i' = [i EXCEPT ![r] = 0]
                 /\ pc' = [pc EXCEPT ![r] = LoopNext(0, chan_count[r])]
                 /\ UNCHANGED <<chan_count, ret, succeeded, prev_failed>>
    /\ UNCHANGED <<ctx, chans_enabled, mlock, mask, channel, rr, val,
                   seq_ok, hist>>

\* One iteration of the loop: dln2_adc_set_chan_enabled(dln2, i, true).
SetChanEnabled(r) ==
    /\ pc[r] = "chan_en"
    /\ \E o \in TransferOutcomes(NoResponse) :
         /\ Log(Req(r, ChanCmd(TRUE), <<U8(port), U8(i[r])>>, o))
         /\ IF TxRet(o) < 0
            THEN ReadReturns(r, TxRet(o))
            ELSE /\ i' = [i EXCEPT ![r] = i[r] + 1]
                 /\ pc' = [pc EXCEPT ![r] = LoopNext(i[r] + 1, chan_count[r])]
                 /\ UNCHANGED <<chan_count, ret, succeeded, prev_failed>>
    /\ UNCHANGED <<ctx, chans_enabled, mlock, mask, channel, rr, val,
                   seq_ok, hist>>

\* The DLN2_ADC_ENABLE transfer that ends dln2_adc_set_port_enabled.
SetPortEnabled(r) ==
    /\ pc[r] = "port_en"
    /\ \E o \in TransferOutcomes(ConflictResponses) :
         /\ Log(Req(r, PortCmd(TRUE), <<U8(port)>>, o))
         /\ IF PortEnableRet(o) < 0
            THEN ReadReturns(r, PortEnableRet(o))
            ELSE /\ pc' = [pc EXCEPT ![r] = "mark"]
                 /\ chan_count' = [chan_count EXCEPT ![r] = 0]
                 /\ i' = [i EXCEPT ![r] = 0]
                 /\ UNCHANGED <<ret, succeeded, prev_failed>>
    /\ UNCHANGED <<ctx, chans_enabled, mlock, mask, channel, rr, val,
                   seq_ok, hist>>

\* Mutant: the flag is not set after the enable sequence.
MarkEnabled_Forgotten(r) ==
    /\ pc[r] = "mark"
    /\ pc' = [pc EXCEPT ![r] = "get_val"]
    /\ UNCHANGED <<ctx, chans_enabled, mlock, locals, trace, seq_ok, succeeded,
                   hist, cum, prev_failed>>

\* dln2->chans_enabled = 1
MarkEnabled(r) ==
    /\ pc[r] = "mark"
    /\ chans_enabled' = 1
    /\ seq_ok' = CompleteEnable(trace)
    /\ pc' = [pc EXCEPT ![r] = "get_val"]
    /\ UNCHANGED <<ctx, mlock, locals, trace, succeeded, hist,
                   cum, prev_failed>>

\* The DLN2_ADC_CHANNEL_GET_VAL transfer of dln2_adc_read and its return.
ChannelGetVal(r) ==
    /\ pc[r] = "get_val"
    /\ \E o \in TransferOutcomes(ValueResponses) :
         /\ Log(Req(r, "CHANNEL_GET_VAL", <<U8(port), U8(channel[r])>>, o))
         /\ ReadReturns(r, GetValRet(o))
    /\ UNCHANGED <<ctx, chans_enabled, mlock, mask, channel, rr, val,
                   seq_ok, hist>>

\* Mutant: a failed read leaves without mutex_unlock.
MutexUnlock_NotOnError(r) ==
    /\ pc[r] = "unlock"
    /\ mlock' = IF ret[r] < 0 THEN mlock ELSE NoReader
    /\ pc' = [pc EXCEPT ![r] = "after"]
    /\ trace' = <<>>
    /\ UNCHANGED <<ctx, chans_enabled, locals, seq_ok, succeeded, hist,
                   cum, prev_failed>>

\* mutex_unlock(&indio_dev->mlock)
MutexUnlock(r) ==
    /\ pc[r] = "unlock"
    /\ mlock' = NoReader
    /\ pc' = [pc EXCEPT ![r] = "after"]
    /\ trace' = <<>>
    /\ UNCHANGED <<ctx, chans_enabled, locals, seq_ok, succeeded, hist,
                   cum, prev_failed>>

\* if (ret < 0) break; *val = ret; return IIO_VAL_INT;  ...  return -EINVAL;
ReadRawReturn(r) ==
    /\ pc[r] = "after"
    /\ rr' = [rr EXCEPT ![r] = ReadRawResult(ret[r])]
    /\ val' = [val EXCEPT ![r] = IF ret[r] < 0 THEN val[r] ELSE ret[r]]
    /\ pc' = [pc EXCEPT ![r] = "returned"]
    /\ UNCHANGED <<ctx, chans_enabled, mlock, mask, channel, chan_count, i,
                   ret, trace, seq_ok, succeeded, hist,
                   cum, prev_failed>>

Next ==
    \/ dln2_adc_probe
    \/ dln2_adc_remove
    \/ \E r \in Readers : ReadRawCall(r)
    \/ \E r \in Readers : MutexLock(r)
    \/ \E r \in Readers : TestEnabled(r)
    \/ \E r \in Readers : GetChanCount(r)
    \/ \E r \in Readers : SetPortResolution(r)
    \/ \E r \in Readers : SetChanEnabled(r)
    \/ \E r \in Readers : SetPortEnabled(r)
    \/ \E r \in Readers : MarkEnabled(r)
    \/ \E r \in Readers : ChannelGetVal(r)
    \/ \E r \in Readers : MutexUnlock(r)
    \/ \E r \in Readers : ReadRawReturn(r)

Spec == Init /\ [][Next]_vars

\* The steps of caller r that need nothing but r being scheduled: every
\* transfer returns, and the code between transfers runs on.
Proceed(r) ==
    \/ TestEnabled(r)
    \/ GetChanCount(r)
    \/ SetPortResolution(r)
    \/ SetChanEnabled(r)
    \/ SetPortEnabled(r)
    \/ MarkEnabled(r)
    \/ ChannelGetVal(r)
    \/ MutexUnlock(r)
    \/ ReadRawReturn(r)

\* Every caller inside read_raw keeps running, and a caller waiting in
\* mutex_lock is granted the mutex if it is free again and again.
Fairness ==
    \A r \in Readers : WF_vars(Proceed(r)) /\ SF_vars(MutexLock(r))

FairSpec == Spec /\ Fairness

TypeOK ==
    /\ life \in {"unbound", "bound", "removed"}
    /\ chans_enabled \in {0, 1}
    /\ mlock \in Readers \cup {NoReader}
    /\ port \in Ports \cup {0}

\* ================================================================ claims
Holder == mlock
Held == mlock # NoReader
\* dln2_adc_read has returned to read_raw, which still holds the mutex:
\* trace is everything that read issued.
ReadDone(r) == pc[r] = "unlock" /\ mlock = r
ValidChannel(c) == c \in 0..(DLN2_ADC_MAX_CHANNELS - 1)
Last(t) == t[Len(t)]

\* The transport delivered a response shorter than declared.
Short(e) == e.ret = 0 /\ Len(e.rsp) < MinLen(e.cmd)
\* The error a failed request stands for.
ErrorOf(e) == IF e.ret < 0 THEN e.ret ELSE -EPROTO

\* The requests the first read of channel c is to issue for a count of n.
ExpectedFirstRead(p, n, c) ==
    [k \in 1..(n + 4) |->
        IF k = n + 4
        THEN [cmd |-> "CHANNEL_GET_VAL", payload |-> <<p, c>>]
        ELSE [cmd |-> EnableCmds(n)[k], payload |-> EnablePayloads(p, n)[k]]]

Issued(t) == [k \in 1..Len(t) |-> [cmd |-> t[k].cmd, payload |-> t[k].payload]]

\* C1: a read of a valid channel that found chans_enabled = 0 and whose every
\* request was answered well has issued exactly GetChannelCount,
\* SetResolution(10), ChannelEnable 0..n-1 in order, PortEnable and
\* ChannelGetValue; and while such a read runs, chans_enabled is 1 exactly
\* when the PortEnable has been answered well and the flag set before any
\* ChannelGetValue is issued.
C1_FirstReadSequence ==
    \A r \in Readers :
        /\ (ReadDone(r) /\ en_before = 0 /\ ValidChannel(channel[r])
                /\ \A k \in 1..Len(trace) : Good(trace[k]))
            => /\ Len(trace) >= 1
               /\ Len(trace[1].rsp) >= 1
               /\ Issued(trace) = ExpectedFirstRead(port, trace[1].rsp[1], channel[r])
               /\ chans_enabled = 1
        /\ (mlock = r /\ en_before = 0)
            => /\ chans_enabled = 1
                  => \E k \in 1..Len(trace) :
                        trace[k].cmd = "ENABLE" /\ Good(trace[k])
               /\ (\E k \in 1..Len(trace) : trace[k].cmd = "CHANNEL_GET_VAL")
                  => chans_enabled = 1

C1_Witness ==
    \E r \in Readers :
        /\ ReadDone(r) /\ en_before = 0 /\ channel[r] = 7
        /\ \A k \in 1..Len(trace) : Good(trace[k])
        /\ Len(trace) = 6
        /\ trace[1].rsp = <<2>>
        /\ ret[r] = 1023

\* C2: once some read has returned successfully the context is enabled, and
\* a read of a valid channel that takes the mutex after that issues exactly
\* one request, ChannelGetValue.
C2_NoReenable ==
    /\ succeeded => chans_enabled = 1
    /\ \A r \in Readers :
         (mlock = r /\ ok_before /\ ValidChannel(channel[r]))
            => /\ Len(trace) <= 1
               /\ \A k \in 1..Len(trace) : trace[k].cmd = "CHANNEL_GET_VAL"
               /\ ReadDone(r) => Len(trace) = 1

C2_Witness ==
    \E r \in Readers :
        /\ ReadDone(r) /\ ok_before /\ channel[r] = 0
        /\ Len(trace) = 1

\* C3: a raw read of a channel index outside 0..7 returns the caller error,
\* issues no request and leaves chans_enabled as it was.
C3_InvalidChannelRejected ==
    \A r \in Readers :
        (mask[r] = IIO_CHAN_INFO_RAW /\ ~ValidChannel(channel[r]))
            => /\ mlock = r => (trace = <<>> /\ chans_enabled = en_before)
               /\ pc[r] = "returned" => rr[r] = -EINVAL

\* C4: an error of a request made during a read reaches the caller of
\* read_raw unchanged.
C4_ErrorVerbatim ==
    \A r \in Readers :
        (pc[r] = "returned" /\ mask[r] = IIO_CHAN_INFO_RAW /\ ret[r] < 0)
            => rr[r] = ret[r]

\* C5: when GetChannelCount fails, it is the read's only request, the read
\* returns its error and chans_enabled stays 0.
C5_CountFailureStops ==
    \A k \in 1..Len(trace) :
        (trace[k].cmd = "GET_CHANNEL_COUNT" /\ ~Good(trace[k]))
            => /\ Len(trace) = 1
               /\ Held
               /\ ReadDone(Holder)
               /\ ret[Holder] = ErrorOf(trace[k])
               /\ chans_enabled = 0

C5_Witness ==
    \E r \in Readers :
        /\ ReadDone(r)
        /\ Len(trace) = 1
        /\ trace[1].cmd = "GET_CHANNEL_COUNT"
        /\ trace[1].ret < 0
        /\ ret[r] = trace[1].ret

\* C6: when a ChannelEnable fails, it is the read's last request: channels
\* 0..k-1 were enabled before it in increasing order and nothing follows, so
\* no higher channel, no PortEnable and no ChannelDisable; the read returns
\* that failure and chans_enabled stays 0.
C6_ChannelEnableFailureStops ==
    \A j \in 1..Len(trace) :
        (trace[j].cmd = "CHANNEL_ENABLE" /\ trace[j].ret < 0)
            => /\ j = Len(trace)
               /\ Held
               /\ ReadDone(Holder)
               /\ ret[Holder] = trace[j].ret
               /\ chans_enabled = 0
               /\ j >= 3
               /\ trace[1].cmd = "GET_CHANNEL_COUNT"
               /\ trace[2].cmd = "SET_RESOLUTION"
               /\ \A k \in 3..j :
                    /\ trace[k].cmd = "CHANNEL_ENABLE"
                    /\ trace[k].payload = <<port, k - 3>>
               /\ j - 3 < trace[1].rsp[1]

C6_Witness ==
    \E r \in Readers :
        /\ ReadDone(r)
        /\ Len(trace) = 4
        /\ trace[1].rsp = <<2>>
        /\ trace[3].cmd = "CHANNEL_ENABLE" /\ trace[3].ret = 0
        /\ trace[4].cmd = "CHANNEL_ENABLE" /\ trace[4].ret < 0
        /\ ret[r] = trace[4].ret

\* The step issues a request; e is that request.
Issues(e) == trace' = Append(trace, e)
NewRequest == Len(trace') = Len(trace) + 1 /\ Issues(Last(trace'))

\* C7: a GetChannelCount, PortEnable or ChannelGetValue answered with fewer
\* bytes than declared makes dln2_adc_read return -EPROTO at that request,
\* chans_enabled being after the request what it was before it.
C7_ShortResponseIsEproto ==
    [][(NewRequest /\ Short(Last(trace')))
        => /\ pc'[Last(trace').by] = "unlock"
           /\ ret'[Last(trace').by] = -EPROTO
           /\ chans_enabled' = chans_enabled
           /\ succeeded' = succeeded]_vars

C7_Witness ==
    \E r \in Readers :
        /\ ReadDone(r)
        /\ Len(trace) = 1
        /\ trace[1].cmd = "CHANNEL_GET_VAL"
        /\ Short(trace[1])
        /\ ret[r] = -EPROTO
        /\ chans_enabled = 1

\* Positions between mutex_lock and mutex_unlock.
Critical ==
    {"test", "get_count", "set_res", "chan_en", "port_en", "mark", "get_val",
     "unlock"}

\* C8: a caller between the test of chans_enabled and its last request holds
\* the mutex, so at most one read is in progress, and the requests issued
\* under one holding of the mutex are all the holder's.
C8_MutualExclusion ==
    /\ \A r \in Readers : pc[r] \in Critical => mlock = r
    /\ Cardinality({r \in Readers : pc[r] \in Critical}) <= 1
    /\ \A k \in 1..Len(trace) : Held /\ trace[k].by = Holder

C8_Witness ==
    \E r, q \in Readers :
        /\ r # q
        /\ pc[r] = "port_en" /\ Len(trace) = 4
        /\ pc[q] = "lock"

\* C9: chans_enabled = 1 only after one enable sequence was answered well in
\* every request; chans_enabled = 0 only while no read has returned
\* successfully; and no ChannelGetValue is issued while chans_enabled = 0.
C9_EnabledInvariant ==
    /\ chans_enabled = 1 => seq_ok
    /\ chans_enabled = 0 => ~succeeded
    /\ \A k \in 1..Len(trace) :
         trace[k].cmd = "CHANNEL_GET_VAL" => chans_enabled = 1

C9_Witness ==
    \E r, q \in Readers :
        /\ r # q
        /\ chans_enabled = 1 /\ seq_ok /\ succeeded
        /\ pc[r] = "returned" /\ rr[r] = IIO_VAL_INT /\ val[r] = 1023
        /\ pc[q] = "get_val" /\ en_before = 1

\* C10: chans_enabled never goes from 1 back to 0, no PortDisable or
\* ChannelDisable is ever issued, and dln2_adc_remove issues no request.
C10_NeverDisabled ==
    /\ [][chans_enabled = 1 => chans_enabled' = 1]_vars
    /\ [][life' # life => trace' = trace]_vars
    /\ [](\A k \in 1..Len(trace) :
            trace[k].cmd \notin {"DISABLE", "CHANNEL_DISABLE"})

C10_Witness ==
    /\ life = "removed"
    /\ chans_enabled = 1
    /\ ~succeeded
    /\ \E r \in Readers : pc[r] = "returned" /\ ret[r] < 0

\* C11: a ChannelGetValue for a channel c that fits a byte carries exactly
\* the two bytes (port, c), and a read whose ChannelGetValue was answered
\* with the bytes (b0, b1) returns b0 + 256 * b1.
C11_GetValueCodec ==
    \A r \in Readers :
        mlock = r =>
            \A k \in 1..Len(trace) :
                trace[k].cmd = "CHANNEL_GET_VAL"
                    => /\ channel[r] \in 0..255
                            => trace[k].payload = <<port, channel[r]>>
                       /\ (trace[k].ret = 0 /\ Len(trace[k].rsp) >= 2)
                            => /\ ReadDone(r)
                               /\ k = Len(trace)
                               /\ ret[r] = trace[k].rsp[1] + 256 * trace[k].rsp[2]

C11_Witness ==
    \E r \in Readers :
        /\ ReadDone(r)
        /\ port = 2 /\ channel[r] = 7
        /\ Last(trace).cmd = "CHANNEL_GET_VAL"
        /\ Last(trace).payload = <<2, 7>>
        /\ Last(trace).rsp = <<255, 3>>
        /\ ret[r] = 1023

\* en_issued holds the first requests of an enable sequence, in order:
\* the count query, the resolution, then channels 0, 1, ...
SequenceBegun(t) ==
    \A k \in 1..Len(t) :
        /\ k = 1 => t[k].cmd = "GET_CHANNEL_COUNT"
        /\ k = 2 => t[k].cmd = "SET_RESOLUTION"
        /\ k >= 3 => (t[k].cmd = "CHANNEL_ENABLE" /\ t[k].payload = <<port, k - 3>>)

\* C12: while every request has been answered well, whatever the number of
\* callers and however their reads interleave, the enable-sequence requests
\* issued since the probe are part of one sequence (no request of it
\* repeated) and, once chans_enabled is set or a read has succeeded, exactly
\* one whole sequence; a ChannelGetValue is issued only after that.
C12_EnableOnceAcrossCallers ==
    all_good =>
        /\ en_issued = Whole \/ SequenceBegun(en_issued)
        /\ (chans_enabled = 1 \/ succeeded) => en_issued = Whole
        /\ \A k \in 1..Len(trace) :
             trace[k].cmd = "CHANNEL_GET_VAL" => en_issued = Whole

C12_Witness ==
    \E r, q \in Readers :
        /\ r # q
        /\ all_good /\ en_issued = Whole
        /\ pc[q] = "returned" /\ rr[q] = IIO_VAL_INT /\ val[q] = 1023
        /\ ReadDone(r) /\ Len(trace) = 1 /\ ret[r] = 1024

\* t is the beginning of an enable sequence, or one up to its port enable.
SequenceRun(t) ==
    \/ SequenceBegun(t)
    \/ /\ Len(t) >= 3
       /\ SequenceBegun(SubSeq(t, 1, Len(t) - 1))
       /\ Last(t).cmd = "ENABLE"
       /\ Last(t).payload = <<port>>

\* t without the ChannelGetValue that ends it, if one does.
WithoutGetVal(t) ==
    IF Len(t) >= 1 /\ Last(t).cmd = "CHANNEL_GET_VAL"
    THEN SubSeq(t, 1, Len(t) - 1)
    ELSE t

\* C13: after a read whose enable sequence failed, chans_enabled is 0 and no
\* caller keeps a channel count or a loop index; the read that takes the
\* mutex next starts again with GetChannelCount, then SetResolution, then
\* ChannelEnable from channel 0, and issues ChannelGetValue only after one
\* whole sequence of its own.
C13_RetryFromStart ==
    prev_failed =>
        /\ ~Held =>
              /\ chans_enabled = 0
              /\ \A r \in Readers : chan_count[r] = 0 /\ i[r] = 0
        /\ Held =>
              /\ en_before = 0
              /\ pc[Holder] \in {"test", "get_count"} => trace = <<>>
              /\ pc[Holder] \in Critical \ {"test", "get_count"} => Len(trace) >= 1
              /\ \A k \in 1..Len(trace) :
                    trace[k].cmd = "CHANNEL_GET_VAL"
                        => /\ k = Len(trace)
                           /\ CompleteEnable(SubSeq(trace, 1, k - 1))
              /\ SequenceRun(WithoutGetVal(trace))

C13_Witness ==
    \E r \in Readers :
        /\ prev_failed
        /\ mlock = r /\ pc[r] = "get_val"
        /\ Len(trace) = 5
        /\ CompleteEnable(trace)

\* C14: a SetResolution or PortEnable that fails (errno, or a PortEnable
\* answered with fewer than 2 bytes) is the read's last request, so no
\* ChannelGetValue follows; the read returns its error and chans_enabled
\* stays 0; a failed SetResolution is the second request, after the count
\* query alone.
C14_ResolutionOrPortFailureStops ==
    \A k \in 1..Len(trace) :
        (trace[k].cmd \in {"SET_RESOLUTION", "ENABLE"} /\ ~Good(trace[k]))
            => /\ k = Len(trace)
               /\ Held
               /\ ReadDone(Holder)
               /\ ret[Holder] = ErrorOf(trace[k])
               /\ chans_enabled = 0
               /\ \A j \in 1..Len(trace) : trace[j].cmd # "CHANNEL_GET_VAL"
               /\ trace[k].cmd = "SET_RESOLUTION"
                    => /\ k = 2
                       /\ trace[1].cmd = "GET_CHANNEL_COUNT"

C14_Witness ==
    \E r \in Readers :
        /\ ReadDone(r)
        /\ Len(trace) = 5
        /\ Last(trace).cmd = "ENABLE"
        /\ Short(Last(trace))
        /\ ret[r] = -EPROTO
        /\ chans_enabled = 0

\* C15: every ChannelEnable request carries a channel index below
\* DLN2_ADC_MAX_CHANNELS, whatever count the device reports.
C15_ChannelIndexBelowMax ==
    \A k \in 1..Len(trace) :
        trace[k].cmd = "CHANNEL_ENABLE"
            => trace[k].payload[2] < DLN2_ADC_MAX_CHANNELS

\* C16 as stated: the value a successful read returns lies in 0..1023.
C16_TenBitRange ==
    \A r \in Readers :
        (ReadDone(r) /\ ret[r] >= 0) => ret[r] \in 0..1023

\* C16, amended: a successful read returns the whole 16-bit field, a value in
\* 0..65535 that read_raw hands on unchanged; it lies in 0..1023 exactly when
\* the upper six bits of the response are zero (second byte below 4).
C16_SixteenBitValue ==
    \A r \in Readers :
        /\ (ReadDone(r) /\ ret[r] >= 0)
            => /\ ret[r] \in 0..65535
               /\ Last(trace).cmd = "CHANNEL_GET_VAL"
               /\ ret[r] <= 1023 <=> Last(trace).rsp[2] < 4
        /\ (pc[r] = "returned" /\ rr[r] = IIO_VAL_INT) => val[r] = ret[r]

C16_Witness ==
    \E r \in Readers :
        /\ ReadDone(r)
        /\ Last(trace).rsp = <<0, 4, 9>>
        /\ ret[r] = 1024

\* C17: the mutex is held only by a caller between mutex_lock and
\* mutex_unlock, so every read that took it gives it back before it returns,
\* on success and on every error; and every caller waiting for the mutex
\* gets it and returns from read_raw.
C17_LockReleased ==
    /\ [](\A r \in Readers : mlock = r <=> pc[r] \in Critical)
    /\ \A r \in Readers : (pc[r] = "lock") ~> (pc[r] = "returned")

C17_Witness ==
    \E r, q \in Readers :
        /\ r # q
        /\ pc[q] = "lock"
        /\ pc[r] = "after" /\ ret[r] < 0
        /\ mlock = NoReader

\* The step is caller r entering read_raw with an operation kind other than
\* IIO_CHAN_INFO_RAW.
OtherKindCall(r) ==
    /\ pc[r] \in {"idle", "returned"}
    /\ mask'[r] # IIO_CHAN_INFO_RAW
    /\ <<pc[r], mask[r], channel[r], rr[r], val[r], ret[r]>>
         # <<pc'[r], mask'[r], channel'[r], rr'[r], val'[r], ret'[r]>>

\* C18: read_raw called with an operation kind other than IIO_CHAN_INFO_RAW
\* returns -EINVAL in that step, without taking the mutex, issuing a
\* request, writing *val or changing chans_enabled.
C18_OtherKindRejected ==
    /\ [][\A r \in Readers :
            OtherKindCall(r)
                => /\ pc'[r] = "returned"
                   /\ rr'[r] = -EINVAL
                   /\ val'[r] = Unwritten
                   /\ mlock' = mlock
                   /\ trace' = trace
                   /\ chans_enabled' = chans_enabled]_vars
    /\ [](\A r \in Readers :
            mask[r] # IIO_CHAN_INFO_RAW
                => (pc[r] = "returned" /\ mlock # r /\ rr[r] = -EINVAL))

C18_Witness ==
    \E r, q \in Readers :
        /\ r # q
        /\ mask[r] # IIO_CHAN_INFO_RAW
        /\ pc[r] = "returned" /\ rr[r] = -EINVAL /\ val[r] = Unwritten
        /\ mlock = q /\ pc[q] = "chan_en"
        /\ chans_enabled = 0

====
